---- MODULE Spec2Model ----
(***************************************************************************)
(* A model of examples/can_protocol/can_signal_parser.c: the CAN signal    *)
(* bit codec (Can_ExtractSignal, Can_InsertSignal), the physical value     *)
(* converter (Can_SignalToPhysical and the two example wrappers) and the   *)
(* message validator (Can_ValidateMessage).                                *)
(*                                                                         *)
(* Representation.                                                         *)
(*  - A uint8_t is an integer in 0..255, a uint16_t an integer modulo      *)
(*    65536.                                                               *)
(*  - A uint64_t is the set of its 1-bit positions, a subset of 0..63      *)
(*    (2^63 does not fit the checker's integers): `x |= 1ULL << k` is      *)
(*    x \cup {k} and `(x >> k) & 1` is k \in x.                            *)
(*  - A float is a fixed-point number counted in hundredths (the integer   *)
(*    100*x); inputs are drawn so that every intermediate value is an      *)
(*    exact number of hundredths of magnitude below 2^31, where the        *)
(*    conversions from integer are exact too. NaN and infinities are not   *)
(*    represented.                                                         *)
(*  - An access data[k] with k outside 0..7 is undefined behaviour: a read *)
(*    yields a byte chosen by the environment (junk), a write leaves the   *)
(*    eight payload bytes alone and may clobber the fields laid out after  *)
(*    them; either sets oob.                                               *)
(***************************************************************************)
EXTENDS Integers, FiniteSets, Sequences, TLC

VARIABLES
    msg,      \* the Can_Message_t operated on
    call,     \* the last call: its function and arguments
    ret,      \* what the last call returned (and the value it scaled)
    ins,      \* the most recent Can_InsertSignal call and the message before it
    oob,      \* the last call accessed msg.data outside data[0..7]
    fault,    \* the last call reported an error to its caller
    nIns,     \* number of Can_InsertSignal calls so far
    data0,    \* the payload at start (history)
    lastw     \* per field of Fields: whether written, and the value last inserted (history)

vars == <<msg, call, ret, ins, oob, fault, nIns, data0, lastw>>

\* Calls to Can_InsertSignal in one behaviour of Spec.
MaxInserts == 1

\* Calls to Can_InsertSignal in one behaviour of SpecFields.
MaxWrites == 3

-----------------------------------------------------------------------------
(* Bits and bytes *)

Pow2(k) == 2 ^ k

\* (b >> k) & 0x01 for a byte b
Bit(b, k) == (b \div Pow2(k)) % 2

\* b |= (1 << k)
SetBit(b, k) == IF Bit(b, k) = 1 THEN b ELSE b + Pow2(k)

\* b &= ~(1 << k)
ClearBit(b, k) == IF Bit(b, k) = 1 THEN b - Pow2(k) ELSE b

U16(x) == x % 65536

U8(x) == x % 256

\* TRUE; makes the model checker evaluate a loop's accumulator at each
\* iteration instead of building a chain of deferred updates.
Evaluated(st) == st.oob \in BOOLEAN

\* msg->data[byte_idx] as the build reads it: the byte inside the array, an
\* environment-chosen byte outside it.
ReadByte(data, junk, byte_idx) ==
    IF byte_idx \in DOMAIN data THEN data[byte_idx] ELSE junk

-----------------------------------------------------------------------------
(* Can_ExtractSignal *)

RECURSIVE ExtractMotorola_LsbFirst(_, _, _, _, _, _)
\* ExtractMotorola storing bit i of the result where the code stores bit
\* length - 1 - i.
ExtractMotorola_LsbFirst(data, junk, start_bit, length, i, st) ==
    IF Evaluated(st) /\ i >= length THEN st
    ELSE LET bit_pos == U16(start_bit - i)
             byte_idx == U8(bit_pos \div 8)
             bit_idx == 7 - (bit_pos % 8)
             one == Bit(ReadByte(data, junk, byte_idx), bit_idx) = 1
         IN  ExtractMotorola_LsbFirst(data, junk, start_bit, length, i + 1,
                 [raw_value |-> IF one THEN st.raw_value \cup {i}
                                ELSE st.raw_value,
                  oob |-> st.oob \/ byte_idx \notin DOMAIN data])

RECURSIVE ExtractMotorola(_, _, _, _, _, _)
\* The Motorola loop; st = [raw_value, oob] after iterations 0..i-1.
ExtractMotorola(data, junk, start_bit, length, i, st) ==
    IF Evaluated(st) /\ i >= length THEN st
    ELSE LET bit_pos == U16(start_bit - i)
             byte_idx == U8(bit_pos \div 8)
             bit_idx == 7 - (bit_pos % 8)
             one == Bit(ReadByte(data, junk, byte_idx), bit_idx) = 1
         IN  ExtractMotorola(data, junk, start_bit, length, i + 1,
                 [raw_value |-> IF one THEN st.raw_value \cup {length - 1 - i}
                                ELSE st.raw_value,
                  oob |-> st.oob \/ byte_idx \notin DOMAIN data])

RECURSIVE ExtractIntel_ReversedBitIdx(_, _, _, _, _, _)
\* ExtractIntel with the Motorola branch's bit_idx = 7 - (bit_pos % 8).
ExtractIntel_ReversedBitIdx(data, junk, start_bit, length, i, st) ==
    IF Evaluated(st) /\ i >= length THEN st
    ELSE LET bit_pos == U16(start_bit + i)
             byte_idx == U8(bit_pos \div 8)
             bit_idx == 7 - (bit_pos % 8)
             one == Bit(ReadByte(data, junk, byte_idx), bit_idx) = 1
         IN  ExtractIntel_ReversedBitIdx(data, junk, start_bit, length, i + 1,
                 [raw_value |-> IF one THEN st.raw_value \cup {i}
                                ELSE st.raw_value,
                  oob |-> st.oob \/ byte_idx \notin DOMAIN data])

RECURSIVE ExtractIntel(_, _, _, _, _, _)
\* The Intel loop; st = [raw_value, oob] after iterations 0..i-1.
ExtractIntel(data, junk, start_bit, length, i, st) ==
    IF Evaluated(st) /\ i >= length THEN st
    ELSE LET bit_pos == U16(start_bit + i)
             byte_idx == U8(bit_pos \div 8)
             bit_idx == bit_pos % 8
             one == Bit(ReadByte(data, junk, byte_idx), bit_idx) = 1
         IN  ExtractIntel(data, junk, start_bit, length, i + 1,
                 [raw_value |-> IF one THEN st.raw_value \cup {i}
                                ELSE st.raw_value,
                  oob |-> st.oob \/ byte_idx \notin DOMAIN data])

\* [raw_value |-> the value returned, oob |-> a read fell outside data[0..7]]
Can_ExtractSignal(data, junk, start_bit, length, motorola) ==
    IF motorola
    THEN ExtractMotorola(data, junk, start_bit, length, 0,
                         [raw_value |-> {}, oob |-> FALSE])
    ELSE ExtractIntel(data, junk, start_bit, length, 0,
                      [raw_value |-> {}, oob |-> FALSE])

-----------------------------------------------------------------------------
(* Can_InsertSignal *)

\* WriteBit that sets 1-bits and never clears a bit for a 0-bit.
WriteBit_OrOnly(st, byte_idx, bit_idx, one) ==
    IF byte_idx \in DOMAIN st.data
    THEN [st EXCEPT !.data[byte_idx] = IF one THEN SetBit(@, bit_idx) ELSE @]
    ELSE [st EXCEPT !.oob = TRUE]

\* WriteBit with = where the code has |= and &=.
WriteBit_Assign(st, byte_idx, bit_idx, one) ==
    IF byte_idx \in DOMAIN st.data
    THEN [st EXCEPT !.data[byte_idx] = IF one THEN Pow2(bit_idx) ELSE 0]
    ELSE [st EXCEPT !.oob = TRUE]

\* data[byte_idx] |= (1 << bit_idx) or data[byte_idx] &= ~(1 << bit_idx)
WriteBit(st, byte_idx, bit_idx, one) ==
    IF byte_idx \in DOMAIN st.data
    THEN [st EXCEPT !.data[byte_idx] =
              IF one THEN SetBit(@, bit_idx) ELSE ClearBit(@, bit_idx)]
    ELSE [st EXCEPT !.oob = TRUE]

RECURSIVE InsertMotorola(_, _, _, _, _)
\* The Motorola loop; st = [data, oob] after iterations 0..i-1.
InsertMotorola(st, start_bit, length, value, i) ==
    IF Evaluated(st) /\ i >= length THEN st
    ELSE LET bit_pos == U16(start_bit - i)
             byte_idx == U8(bit_pos \div 8)
             bit_idx == 7 - (bit_pos % 8)
         IN  InsertMotorola(
                 WriteBit(st, byte_idx, bit_idx, (length - 1 - i) \in value),
                 start_bit, length, value, i + 1)

RECURSIVE InsertIntel(_, _, _, _, _)
\* The Intel loop; st = [data, oob] after iterations 0..i-1.
InsertIntel(st, start_bit, length, value, i) ==
    IF Evaluated(st) /\ i >= length THEN st
    ELSE LET bit_pos == U16(start_bit + i)
             byte_idx == U8(bit_pos \div 8)
             bit_idx == bit_pos % 8
         IN  InsertIntel(WriteBit(st, byte_idx, bit_idx, i \in value),
                         start_bit, length, value, i + 1)

\* [data |-> the payload afterwards, oob |-> a write fell outside data[0..7]]
Can_InsertSignal(data, start_bit, length, value, motorola) ==
    IF motorola
    THEN InsertMotorola([data |-> data, oob |-> FALSE], start_bit, length, value, 0)
    ELSE InsertIntel([data |-> data, oob |-> FALSE], start_bit, length, value, 0)

-----------------------------------------------------------------------------
(* uint64_t / int64_t values and floats *)

RECURSIVE SumPow2(_)
\* The number whose 1-bits are at the positions in S.
SumPow2(S) ==
    IF S = {} THEN 0
    ELSE LET k == CHOOSE x \in S : TRUE IN Pow2(k) + SumPow2(S \ {k})

\* The bits as a uint64_t.
Uint64Value(bits) == SumPow2(bits)

\* The bits as an int64_t (two's complement): (int64_t)raw_value.
Int64Value(bits) ==
    IF 63 \in bits THEN -(1 + SumPow2((0..63) \ bits)) ELSE SumPow2(bits)

\* (uint64_t)n for an integer 0 <= n < 2^31.
ToBits(n) == {k \in 0..30 : Bit(n, k) = 1}

\* ~0ULL << n. A shift by the full width is undefined: ub is the outcome
\* the build produces there (count taken modulo 64: all ones; bits shifted
\* out: zero).
ShiftLeftAllOnes(n, ub) == IF n < 64 THEN n..63 ELSE ub

ShiftOutcomes == {{}, 0..63}

\* (float)n, in hundredths.
IntToFloat(n) == n * 100

\* a * b on floats in hundredths.
FMul(a, b) == (a * b) \div 100

\* a + b on floats in hundredths.
FAdd(a, b) == a + b

\* a / b on floats in hundredths.
FDiv(a, b) == (a * 100) \div b

\* (uint64_t)f for a float f >= 0: truncation toward zero.
FloatToUint64(f) == ToBits(f \div 100)

-----------------------------------------------------------------------------
(* Can_SignalToPhysical *)

\* The integer the function scales: signed_value (is_signed) or raw_value.
ScaledValue(raw_value, length, is_signed, ub) ==
    IF is_signed
    THEN LET signed_value ==
                 IF (length - 1) \in raw_value
                 THEN raw_value \cup ShiftLeftAllOnes(length, ub)
                 ELSE raw_value
         IN  Int64Value(signed_value)
    ELSE Uint64Value(raw_value)

\* RangeCheck without the upper bound.
RangeCheck_NoUpper(physical_value, signal) ==
    IF physical_value < signal.min_value THEN signal.min_value
    ELSE physical_value

\* The range check of lines 120-125.
RangeCheck(physical_value, signal) ==
    IF physical_value < signal.min_value THEN signal.min_value
    ELSE IF physical_value > signal.max_value THEN signal.max_value
    ELSE physical_value

\* [numeric |-> the integer scaled, physical_value |-> the float returned]
Can_SignalToPhysical(raw_value, signal, is_signed, ub) ==
    LET numeric == ScaledValue(raw_value, signal.length, is_signed, ub)
        physical_value ==
            FAdd(FMul(IntToFloat(numeric), signal.factor), signal.offset)
    IN  [numeric |-> numeric,
         physical_value |-> RangeCheck(physical_value, signal)]

\* speed_signal: factor 0.01f, offset 0.0f, range 0.0f .. 300.0f
speed_signal ==
    [start_bit |-> 0, length |-> 16, factor |-> 1, offset |-> 0,
     min_value |-> 0, max_value |-> 30000]

\* [raw_speed |-> the raw value extracted, vehicle_speed |-> the float returned]
Can_ParseVehicleSpeed(data) ==
    LET raw_speed == Can_ExtractSignal(data, 0, speed_signal.start_bit,
                                       speed_signal.length, FALSE).raw_value
    IN  [raw_speed |-> raw_speed,
         vehicle_speed |->
             Can_SignalToPhysical(raw_speed, speed_signal, FALSE, {}).physical_value]

-----------------------------------------------------------------------------
(* Can_CreateEngineRpmMessage, Can_ValidateMessage *)

\* memset(msg, 0, sizeof(Can_Message_t))
ZeroPayload == [k \in 0..7 |-> 0]

ZeroMessage ==
    [id |-> 0, dlc |-> 0, data |-> ZeroPayload, extended_id |-> FALSE, rtr |-> FALSE]

\* Can_CreateEngineRpmMessage without the range check on rpm.
Can_CreateEngineRpmMessage_NoRangeCheck(rpm) ==
    LET raw_rpm == FloatToUint64(FDiv(IntToFloat(rpm), 25))
        header == [ZeroMessage EXCEPT !.id = 564, !.dlc = 8]
    IN  [msg |-> [header EXCEPT !.data =
                      Can_InsertSignal(header.data, 16, 16, raw_rpm, FALSE).data],
         header |-> header,
         raw_rpm |-> raw_rpm]

\* [msg |-> the message built, header |-> the message before the insert,
\*  raw_rpm |-> the raw value inserted]
Can_CreateEngineRpmMessage(rpm) ==
    LET converted == FloatToUint64(FDiv(IntToFloat(rpm), 25))
        raw_rpm == IF rpm > 8000 THEN ToBits(32000) ELSE converted
        header == [ZeroMessage EXCEPT !.id = 564, !.dlc = 8,
                                      !.extended_id = FALSE, !.rtr = FALSE]
    IN  [msg |-> [header EXCEPT !.data =
                      Can_InsertSignal(header.data, 16, 16, raw_rpm, FALSE).data],
         header |-> header,
         raw_rpm |-> raw_rpm]

\* Can_ValidateMessage with >= where the code has >.
Can_ValidateMessage_OffByOne(m) ==
    IF m.dlc >= 8 THEN FALSE
    ELSE IF m.extended_id
         THEN (IF m.id >= 536870911 THEN FALSE ELSE TRUE)
         ELSE (IF m.id >= 2047 THEN FALSE ELSE TRUE)

Can_ValidateMessage(m) ==
    IF m.dlc > 8 THEN FALSE
    ELSE IF m.extended_id
         THEN (IF m.id > 536870911 THEN FALSE ELSE TRUE)
         ELSE (IF m.id > 2047 THEN FALSE ELSE TRUE)

-----------------------------------------------------------------------------
(* Inputs *)

\* 0x81 0x34 0x56 0x78 0x9A 0xBC 0xDE 0xFF
PatternPayload ==
    [k \in 0..7 |-> CASE k = 0 -> 129 [] k = 1 -> 52 [] k = 2 -> 86 [] k = 3 -> 120
                      [] k = 4 -> 154 [] k = 5 -> 188 [] k = 6 -> 222 [] OTHER -> 255]

\* Payload contents a received or partly built message starts with.
Payloads == {ZeroPayload, PatternPayload}

G(s, l, m) == [start_bit |-> s, length |-> l, motorola |-> m]

\* Signal geometries whose bits all lie inside the 8-byte payload.
GeomsInRange ==
    {G(7, 8, FALSE), G(0, 16, FALSE), G(4, 12, FALSE), G(13, 40, FALSE),
     G(63, 1, FALSE), G(1, 63, FALSE), G(0, 64, FALSE),
     G(7, 8, TRUE), G(15, 16, TRUE), G(11, 4, TRUE), G(23, 24, TRUE),
     G(52, 41, TRUE), G(63, 64, TRUE)}

\* Geometries with a bit outside the payload: past the end (Intel), before
\* the start (Motorola, where start_bit - i wraps around as a uint16_t).
GeomsOutOfRange == {G(60, 16, FALSE), G(3, 8, TRUE)}

Geoms == GeomsInRange \cup GeomsOutOfRange

\* Values offered to an insert of the given length: zero, an irregular
\* pattern below 2^length with the lowest bit set, and all 64 bits set.
Values(length) == {{}, {k \in 0..(length - 1) : k % 3 = 0}, 0..63}

\* What a read outside the array may find.
JunkBytes == {0, 255}

\* The fields laid out after data[] with a write outside the array landed on them.
Clobbered(m, hit) ==
    IF hit
    THEN {m, [m EXCEPT !.extended_id = ~@, !.rtr = ~@]}
    ELSE {m}

-----------------------------------------------------------------------------
(* State machine: the codec *)

\* Calls that change nothing: the calls that follow one are those already
\* taken from the state before it, so none is taken after it.
PureCalls == {"extract", "toPhysical", "parseSpeed", "validate"}

NoRet == [fn |-> "none"]

NoInsert ==
    [start_bit |-> 0, length |-> 0, value |-> {}, motorola |-> FALSE,
     pre |-> ZeroMessage]

\* Disjoint fields of one message layout, Intel and Motorola mixed:
\* byte 0 and the low nibble of byte 1; the high nibble of byte 1; the low
\* nibble of byte 2 with bytes 3 and 4; the high nibble of byte 2.
Fields == {G(0, 12, FALSE), G(11, 4, TRUE), G(39, 20, TRUE), G(20, 4, FALSE)}

InitCodec ==
    /\ msg \in {[id |-> 291, dlc |-> 8, data |-> d, extended_id |-> FALSE,
                 rtr |-> FALSE] : d \in Payloads}
    /\ call = NoRet
    /\ ret = NoRet
    /\ ins = NoInsert
    /\ oob = FALSE
    /\ fault = FALSE
    /\ nIns = 0
    /\ data0 = msg.data
    /\ lastw = [f \in Fields |-> [written |-> FALSE, value |-> {}]]

\* A call Can_ExtractSignal(&msg, start_bit, length, motorola).
ExtractSignal(start_bit, length, motorola) ==
    /\ call.fn \notin PureCalls
    /\ LET r0 == Can_ExtractSignal(msg.data, 0, start_bit, length, motorola)
       IN  \E r \in (IF r0.oob
                     THEN {Can_ExtractSignal(msg.data, junk, start_bit, length,
                                             motorola) : junk \in JunkBytes}
                     ELSE {r0}) :
               /\ ret' = [fn |-> "extract", raw_value |-> r.raw_value]
               /\ oob' = r.oob
    /\ call' = [fn |-> "extract", start_bit |-> start_bit,
                length |-> length, motorola |-> motorola]
    /\ fault' = FALSE
    /\ UNCHANGED <<msg, ins, nIns, data0, lastw>>

\* A call Can_InsertSignal(&msg, start_bit, length, value, motorola).
InsertCall(start_bit, length, value, motorola) ==
    /\ call.fn \notin PureCalls
    /\ LET r == Can_InsertSignal(msg.data, start_bit, length, value, motorola)
       IN  /\ msg' \in Clobbered([msg EXCEPT !.data = r.data], r.oob)
           /\ call' = [fn |-> "insert", start_bit |-> start_bit, length |-> length,
                       value |-> value, motorola |-> motorola]
           /\ ret' = NoRet
           /\ ins' = [start_bit |-> start_bit, length |-> length, value |-> value,
                      motorola |-> motorola, pre |-> msg]
           /\ oob' = r.oob
           /\ fault' = FALSE
           /\ nIns' = nIns + 1
           /\ UNCHANGED data0

InsertSignal(start_bit, length, value, motorola) ==
    /\ nIns < MaxInserts
    /\ InsertCall(start_bit, length, value, motorola)
    /\ UNCHANGED lastw

Next ==
    \/ \E g \in Geoms : ExtractSignal(g.start_bit, g.length, g.motorola)
    \/ \E g \in Geoms : \E v \in Values(g.length) :
           InsertSignal(g.start_bit, g.length, v, g.motorola)

Spec == InitCodec /\ [][Next]_vars

\* An insert into one of the fields of the layout Fields.
InsertField(f, value) ==
    /\ nIns < MaxWrites
    /\ InsertCall(f.start_bit, f.length, value, f.motorola)
    /\ lastw' = [lastw EXCEPT ![f] = [written |-> TRUE, value |-> value]]

NextFields ==
    \/ \E f \in Fields : \E v \in Values(f.length) : InsertField(f, v)
    \/ \E f \in Fields : ExtractSignal(f.start_bit, f.length, f.motorola)

\* Sequences of inserts into the fields of one layout, then an extraction.
SpecFields == InitCodec /\ [][NextFields]_vars

-----------------------------------------------------------------------------
(* State machine: the physical converter and the example messages *)

\* Low and high bytes of the raw speed: 0x7530 = 30000 is the raw value of
\* 300.00 km/h.
SpeedBytes == {0, 47, 48, 49, 117, 255}

InitPhysical ==
    /\ msg \in {[id |-> 291, dlc |-> 8,
                 data |-> [k \in 0..7 |-> IF k = 0 THEN b0 ELSE IF k = 1 THEN b1 ELSE 0],
                 extended_id |-> FALSE, rtr |-> FALSE] :
                    b0 \in SpeedBytes, b1 \in SpeedBytes}
    /\ call = NoRet
    /\ ret = NoRet
    /\ ins = NoInsert
    /\ oob = FALSE
    /\ fault = FALSE
    /\ nIns = 0
    /\ data0 = msg.data
    /\ lastw = [f \in Fields |-> [written |-> FALSE, value |-> {}]]

S(f, o, lo, hi) == [factor |-> f, offset |-> o, min_value |-> lo, max_value |-> hi]

\* Scaling descriptors, in hundredths: the speed and rpm signals of the
\* examples, a signed byte, a temperature with an offset, a negative
\* factor, a range too wide to clamp, a range of one point, and a
\* descriptor whose min_value exceeds its max_value.
Scales ==
    {S(1, 0, 0, 30000), S(25, 0, 0, 800000), S(100, 0, -12800, 12700),
     S(100, -4000, -4000, 21500), S(-100, 0, -100, 100),
     S(100, 0, -7000000, 7000000), S(50, 10, 500, 500), S(100, 0, 100, -100)}

Lengths == {1, 8, 16, 63, 64}

\* Raw values below 2^length: zero, one, the sign bit alone, all ones, and
\* all ones but bits 0 and 2, and all ones but the low byte.
Raws(length) ==
    {{}, {0}, {length - 1}, 0..(length - 1), (0..(length - 1)) \ {0, 2},
     8..(length - 1)}

\* The integer scaled has magnitude at most 2^16, so that every float of
\* the computation is an exact number of hundredths below 2^31.
Representable(raw_value, length, is_signed) ==
    IF is_signed /\ (length - 1) \in raw_value
    THEN (0..(length - 1)) \ raw_value \subseteq 0..15
    ELSE raw_value \subseteq 0..15

\* A call Can_SignalToPhysical(raw_value, &signal, is_signed), the signal
\* having the given length and scaling.
SignalToPhysical(raw_value, length, scale, is_signed) ==
    /\ call.fn \notin PureCalls
    /\ \E ub \in ShiftOutcomes :
           LET signal == [start_bit |-> 0, length |-> length,
                          factor |-> scale.factor, offset |-> scale.offset,
                          min_value |-> scale.min_value,
                          max_value |-> scale.max_value]
               r == Can_SignalToPhysical(raw_value, signal, is_signed, ub)
           IN  /\ call' = [fn |-> "toPhysical", raw_value |-> raw_value,
                           signal |-> signal, is_signed |-> is_signed]
               /\ ret' = [fn |-> "toPhysical", numeric |-> r.numeric,
                          physical_value |-> r.physical_value]
    /\ oob' = FALSE
    /\ fault' = FALSE
    /\ UNCHANGED <<msg, ins, nIns, data0, lastw>>

\* A call Can_ParseVehicleSpeed(&msg).
ParseVehicleSpeed ==
    /\ call.fn \notin PureCalls
    /\ LET r == Can_ParseVehicleSpeed(msg.data)
       IN  /\ call' = [fn |-> "parseSpeed"]
           /\ ret' = [fn |-> "parseSpeed", raw_speed |-> r.raw_speed,
                      vehicle_speed |-> r.vehicle_speed]
    /\ oob' = FALSE
    /\ fault' = FALSE
    /\ UNCHANGED <<msg, ins, nIns, data0, lastw>>

RpmInputs == {0, 1, 2500, 7999, 8000, 8001, 16383, 16384, 65535}

\* A call Can_CreateEngineRpmMessage(&msg, rpm).
CreateEngineRpmMessage(rpm) ==
    /\ call.fn \notin PureCalls
    /\ LET r == Can_CreateEngineRpmMessage(rpm)
       IN  /\ msg' = r.msg
           /\ call' = [fn |-> "createRpm", rpm |-> rpm]
           /\ ret' = [fn |-> "createRpm", raw_rpm |-> r.raw_rpm]
           /\ ins' = [start_bit |-> 16, length |-> 16, value |-> r.raw_rpm,
                      motorola |-> FALSE, pre |-> r.header]
    /\ oob' = FALSE
    /\ fault' = FALSE
    /\ data0' = ZeroPayload
    /\ UNCHANGED <<nIns, lastw>>

NextPhysical ==
    \/ \E length \in Lengths : \E raw_value \in Raws(length) :
       \E is_signed \in BOOLEAN : \E scale \in Scales :
           /\ Representable(raw_value, length, is_signed)
           /\ SignalToPhysical(raw_value, length, scale, is_signed)
    \/ ParseVehicleSpeed
    \/ \E rpm \in RpmInputs : CreateEngineRpmMessage(rpm)

SpecPhysical == InitPhysical /\ [][NextPhysical]_vars

-----------------------------------------------------------------------------
(* State machine: the validator *)

\* Identifiers around the 11-bit and 29-bit limits: 0, 0x234, 0x7FF, 0x800,
\* 0x1FFFFFFF, 0x20000000, 0x7FFFFFFF.
Ids == {0, 564, 2047, 2048, 536870911, 536870912, 2147483647}

Dlcs == {0, 8, 9, 255}

InitValidate ==
    /\ msg \in {[id |-> i, dlc |-> d, data |-> p, extended_id |-> e, rtr |-> r] :
                    i \in Ids, d \in Dlcs, p \in Payloads,
                    e \in BOOLEAN, r \in BOOLEAN}
    /\ call = NoRet
    /\ ret = NoRet
    /\ ins = NoInsert
    /\ oob = FALSE
    /\ fault = FALSE
    /\ nIns = 0
    /\ data0 = msg.data
    /\ lastw = [f \in Fields |-> [written |-> FALSE, value |-> {}]]

\* A call Can_ValidateMessage(&msg).
ValidateMessage ==
    /\ call.fn \notin PureCalls
    /\ call' = [fn |-> "validate"]
    /\ ret' = [fn |-> "validate", valid |-> Can_ValidateMessage(msg)]
    /\ oob' = FALSE
    /\ fault' = FALSE
    /\ UNCHANGED <<msg, ins, nIns, data0, lastw>>

NextValidate == ValidateMessage

SpecValidate == InitValidate /\ [][NextValidate]_vars

-----------------------------------------------------------------------------
(* Properties of the codec *)

\* Every bit index of the geometry lies in 0 .. 63.
InRange(c) ==
    IF c.motorola
    THEN c.start_bit <= 63 /\ c.start_bit - (c.length - 1) >= 0
    ELSE c.start_bit + c.length <= 64

\* The payload bit at linear index p = byte_index*8 + bit_in_byte.
PayloadBit(data, p) == (data[p \div 8] \div Pow2(p % 8)) % 2

\* The <<byte, bit>> positions of the payload a field occupies.
FieldBits(c) ==
    IF c.motorola
    THEN {<<p \div 8, 7 - (p % 8)>> : p \in (c.start_bit - c.length + 1)..c.start_bit}
    ELSE {<<p \div 8, p % 8>> : p \in c.start_bit..(c.start_bit + c.length - 1)}

SameGeometry(c, d) ==
    /\ c.start_bit = d.start_bit
    /\ c.length = d.length
    /\ c.motorola = d.motorola

\* An extraction that reads back, with the same geometry, a value below
\* 2^length just inserted into an all-zero payload.
RoundTripCase ==
    /\ call.fn = "extract"
    /\ ins.length >= 1
    /\ ins.pre.data = ZeroPayload
    /\ SameGeometry(call, ins)
    /\ InRange(call)
    /\ ins.value \subseteq 0..(ins.length - 1)

\* C1: inserting a value below 2^length into an all-zero payload and
\* extracting with the same in-range start_bit, length and byte order
\* returns exactly that value.
C1_RoundTrip == RoundTripCase => ret.raw_value = ins.value

\* C1 witness: a 41-bit Motorola field read back with a non-zero value.
C1_Witness ==
    /\ RoundTripCase
    /\ call.motorola /\ call.length = 41
    /\ ins.value # {}
    /\ ret.raw_value = ins.value

\* C2: an in-range insert changes no payload bit outside the addressed
\* field and leaves id, dlc, extended_id and rtr as they were.
C2_NonInterference ==
    (call.fn = "insert" /\ InRange(call)) =>
        /\ \A k \in 0..7 : \A b \in 0..7 :
               <<k, b>> \notin FieldBits(call) =>
                   Bit(msg.data[k], b) = Bit(ins.pre.data[k], b)
        /\ msg.id = ins.pre.id
        /\ msg.dlc = ins.pre.dlc
        /\ msg.extended_id = ins.pre.extended_id
        /\ msg.rtr = ins.pre.rtr

\* C2 witness: an in-range insert shorter than the payload that changed
\* a payload holding 1-bits outside the field.
C2_Witness ==
    /\ call.fn = "insert" /\ InRange(call)
    /\ call.length < 64
    /\ ins.pre.data = PatternPayload
    /\ msg.data # ins.pre.data

\* C3: a geometry with a bit index outside the payload is reported to the
\* caller as an out-of-range fault, and no byte outside data[0..7] is read
\* or written.
C3_OutOfRangeRejected ==
    (call.fn \in {"extract", "insert"} /\ ~InRange(call)) => (fault /\ ~oob)

\* C4: an in-range Intel extraction returns the integer whose bit i is the
\* payload bit at linear index start_bit + i for 0 <= i < length, with no
\* bit at position length or above.
C4_IntelExtract ==
    (call.fn = "extract" /\ ~call.motorola /\ InRange(call)) =>
        /\ ret.raw_value =
               {i \in 0..(call.length - 1) :
                    PayloadBit(msg.data, call.start_bit + i) = 1}
        /\ ret.raw_value \subseteq 0..(call.length - 1)

\* C4 witness: a 40-bit Intel extraction that starts inside byte 1 and
\* returns both 1-bits and 0-bits.
C4_Witness ==
    /\ call.fn = "extract" /\ ~call.motorola
    /\ call.start_bit = 13 /\ call.length = 40
    /\ ret.raw_value # {}
    /\ ret.raw_value # 0..39

\* C5: Motorola start_bit=15, length=16 reads bytes b0, b1 in big-endian
\* word order, b0*256 + b1; Intel start_bit=0, length=16 reads them as
\* b1*256 + b0; and Motorola start_bit=7, length=8 returns 0x81 for
\* byte0 = 0x81.
C5_MotorolaWordOrder ==
    call.fn = "extract" =>
        /\ (call.motorola /\ call.start_bit = 15 /\ call.length = 16) =>
               Uint64Value(ret.raw_value) = msg.data[0] * 256 + msg.data[1]
        /\ (~call.motorola /\ call.start_bit = 0 /\ call.length = 16) =>
               Uint64Value(ret.raw_value) = msg.data[1] * 256 + msg.data[0]
        /\ (call.motorola /\ call.start_bit = 7 /\ call.length = 8
                /\ msg.data[0] = 129) =>
               Uint64Value(ret.raw_value) = 129

\* The signal bit (0 = least significant) of field c stored at payload
\* position <<k, b>>.
SignalBitAt(c, k, b) ==
    IF c.motorola
    THEN c.length - 1 - (c.start_bit - (8 * k + (7 - b)))
    ELSE 8 * k + b - c.start_bit

\* The content of field c in a payload.
FieldValue(data, c) ==
    {SignalBitAt(c, q[1], q[2]) :
        q \in {x \in FieldBits(c) : Bit(data[x[1]], x[2]) = 1}}

\* What the fields hold after the inserts recorded in lastw, whatever
\* their order: the low length bits of the last value, or the initial content.
ExpectedField(f) ==
    IF lastw[f].written THEN lastw[f].value \cap (0..(f.length - 1))
    ELSE FieldValue(data0, f)

ExpectedBit(k, b) ==
    IF \E f \in Fields : <<k, b>> \in FieldBits(f) /\ lastw[f].written
    THEN LET f == CHOOSE g \in Fields :
                      <<k, b>> \in FieldBits(g) /\ lastw[g].written
         IN  IF SignalBitAt(f, k, b) \in lastw[f].value THEN 1 ELSE 0
    ELSE Bit(data0[k], b)

\* C10: after any sequence of inserts into pairwise disjoint in-range
\* fields, an extraction of a field returns the low length bits of the value
\* last inserted into it (its initial content if none was), and the payload
\* is determined by the last value per field, whatever the order of the
\* inserts.
C10_LastWriteWins ==
    /\ \A k \in 0..7 : \A b \in 0..7 : Bit(msg.data[k], b) = ExpectedBit(k, b)
    /\ call.fn = "extract" =>
           ret.raw_value =
               ExpectedField(G(call.start_bit, call.length, call.motorola))

\* C10 witness: three inserts into two fields (one of them written twice),
\* the last value of the extracted 20-bit Motorola field being zero over
\* initial 1-bits, and another field never written.
C10_Witness ==
    /\ call.fn = "extract" /\ call.motorola /\ call.length = 20
    /\ nIns = 3
    /\ Cardinality({f \in Fields : lastw[f].written}) = 2
    /\ lastw[G(39, 20, TRUE)].written
    /\ lastw[G(39, 20, TRUE)].value = {}
    /\ FieldValue(data0, G(39, 20, TRUE)) # {}
    /\ ret.raw_value = {}

-----------------------------------------------------------------------------
(* Properties of the physical converter and of the validator *)

\* raw - 2^length for a raw value below 2^length with bit length-1 set.
MinusTwoToTheLength(raw_value, length) ==
    -(1 + SumPow2((0..(length - 1)) \ raw_value))

\* C6: for every length in 1..64 and raw < 2^length, the value scaled is
\* raw - 2^length when is_signed and bit length-1 of raw is set, and raw
\* otherwise, at length = 64 too.
C6_SignExtension ==
    call.fn = "toPhysical" =>
        ret.numeric =
            IF call.is_signed /\ (call.signal.length - 1) \in call.raw_value
            THEN MinusTwoToTheLength(call.raw_value, call.signal.length)
            ELSE SumPow2(call.raw_value)

\* numeric * factor + offset, in hundredths.
Scaled == ret.numeric * call.signal.factor + call.signal.offset

\* The raw speed of the message: bytes 0 and 1, little-endian.
RawSpeed == msg.data[1] * 256 + msg.data[0]

\* C7: with min_value <= max_value, Can_SignalToPhysical returns
\* numeric*factor + offset if it lies in [min_value, max_value], min_value
\* if it is below and max_value if it is above; raw 65535 under the speed
\* scaling gives 300.00; and Can_ParseVehicleSpeed returns the scaled raw
\* speed clamped to 0 .. 300.00.
C7_ScaleThenClamp ==
    /\ (call.fn = "toPhysical"
           /\ call.signal.min_value <= call.signal.max_value) =>
           /\ ret.physical_value =
                  IF Scaled < call.signal.min_value THEN call.signal.min_value
                  ELSE IF Scaled > call.signal.max_value THEN call.signal.max_value
                  ELSE Scaled
           /\ ret.physical_value >= call.signal.min_value
           /\ ret.physical_value <= call.signal.max_value
    /\ call.fn = "parseSpeed" =>
           /\ ret.vehicle_speed >= 0
           /\ ret.vehicle_speed <= 30000
           /\ ret.vehicle_speed = IF RawSpeed > 30000 THEN 30000 ELSE RawSpeed

\* C7 witness: unsigned raw 65535 of length 16 under factor 0.01, offset 0,
\* range 0 .. 300 scales to 655.35 and is returned as 300.00.
C7_Witness ==
    /\ call.fn = "toPhysical"
    /\ ~call.is_signed
    /\ call.raw_value = 0..15 /\ call.signal.length = 16
    /\ call.signal.factor = 1 /\ call.signal.offset = 0
    /\ call.signal.min_value = 0 /\ call.signal.max_value = 30000
    /\ Scaled = 65535
    /\ ret.physical_value = 30000

\* The raw value the claim gives for an rpm input.
ExpectedRawRpm(rpm) == IF rpm <= 8000 THEN 4 * rpm ELSE 32000

\* C8: Can_CreateEngineRpmMessage inserts into the Intel field at
\* start_bit 16, length 16 the raw value 4*rpm when rpm <= 8000 and 32000
\* when rpm > 8000: never more than 32000, never a wrapped value.
C8_RpmClamp ==
    call.fn = "createRpm" =>
        /\ ret.raw_rpm = ToBits(ExpectedRawRpm(call.rpm))
        /\ Uint64Value(ret.raw_rpm) <= 32000
        /\ ins.start_bit = 16 /\ ins.length = 16 /\ ~ins.motorola
        /\ ins.value = ret.raw_rpm
        /\ msg.data = [k \in 0..7 |->
                          IF k = 2 THEN ExpectedRawRpm(call.rpm) % 256
                          ELSE IF k = 3 THEN ExpectedRawRpm(call.rpm) \div 256
                          ELSE 0]

\* C8 witness: rpm 65535, whose unclamped raw value 262140 does not fit in
\* 16 bits, is encoded as 32000 = 0x7D00.
C8_Witness ==
    /\ call.fn = "createRpm"
    /\ call.rpm = 65535
    /\ Uint64Value(ret.raw_rpm) = 32000
    /\ msg.data[2] = 0 /\ msg.data[3] = 125

\* C9: Can_ValidateMessage returns true exactly when dlc <= 8 and the
\* identifier is at most 0x7FF (standard) or 0x1FFFFFFF (extended),
\* whatever the payload and the rtr flag.
C9_Validate ==
    call.fn = "validate" =>
        (ret.valid <=>
            /\ msg.dlc <= 8
            /\ msg.id <= (IF msg.extended_id THEN 536870911 ELSE 2047))

\* C9 witness: the largest extended identifier with dlc 8 passes.
C9_Witness ==
    /\ call.fn = "validate"
    /\ msg.extended_id /\ msg.id = 536870911 /\ msg.dlc = 8
    /\ ret.valid

====
